---- MODULE Spec2Model ----
(***************************************************************************)
(* State-machine model of the AI-Assistant backend:                        *)
(*   - ai_service.stream_response / _generate_sync_stream: the bridge that *)
(*     turns the blocking streaming call into an async token sequence;     *)
(*   - server.websocket_endpoint / _run_chat_stream: the per-connection    *)
(*     session handler and its background chat tasks.                      *)
(* Text is modelled by TLA+ strings (Len, \o and SubSeq act on them).       *)
(***************************************************************************)
EXTENDS Integers, Sequences, FiniteSets, TLC

\* ------------------------------------------------------------------ bounds
\* directives the receive loop answers in one run: each stream it starts and
\* each error message it sends itself counts as one
MaxDirectives == 2
\* lines the backend emits on one streaming response before it closes
MaxLines == 3
\* direct calls of stream_response per run
MaxDirect == 1
\* words in a text handed to chunk_text or summarize_long_text
MaxWords == 4
\* the largest max_words chunk_text is called with
MaxM == 3
\* config.MAX_SESSION_MESSAGES (100 in config.py), scaled down
MAX_SESSION_MESSAGES == 4
\* config.MAX_MESSAGE_LENGTH (50000 in config.py), scaled down
MAX_MESSAGE_LENGTH == 80
\* config.MAX_FILE_WORDS (6000 in config.py and ai_service.py), scaled down
MAX_FILE_WORDS == 2
\* config.UPLOAD_MAX_ENTRIES (20 in config.py), scaled down
UPLOAD_MAX_ENTRIES == 2
\* the title limit of server.py:376 (50), scaled down
TITLE_LIMIT == 10

None == "None"
StreamIds == 1..MaxDirectives
Conns == {"w1", "w2"}

VARIABLES
    entry,      \* which entry point the run exercises: "websocket" or "direct"
    client,     \* the chat directives the client of this run sends
    bridge,     \* per stream: the state of one stream_response call
    task,       \* per stream: the _run_chat_stream task created for it
    sessions,   \* per connection: the session dict (messages, title, stop_event)
    registry,   \* keys of the _sessions dictionary
    conn,       \* per connection: "new", "open" or "closed"
    sent,       \* per connection: the messages sent to the client, in order
    nstreams,   \* streams started so far
    upload_store, \* the _upload_store dictionary, in insertion order
    call        \* the library call in progress (chunk_text, summarize_long_text)

vars == <<entry, client, bridge, task, sessions, registry, conn, sent,
          nstreams, upload_store, call>>

\* ------------------------------------------------------------ small helpers
Last(s) == s[Len(s)]

\* "".join(parts)
RECURSIVE Concat(_)
Concat(ss) == IF ss = <<>> THEN "" ELSE Head(ss) \o Concat(Tail(ss))

\* sep.join(parts)
RECURSIVE Join(_, _)
Join(sep, ss) ==
    IF ss = <<>> THEN ""
    ELSE IF Len(ss) = 1 THEN Head(ss)
    ELSE Head(ss) \o sep \o Join(sep, Tail(ss))

IsSpace(c) == c \in {" ", "\n", "\t"}

\* str.strip(): leading and trailing whitespace removed
RECURSIVE Strip(_)
Strip(s) ==
    IF Len(s) > 0 /\ IsSpace(SubSeq(s, 1, 1)) THEN Strip(SubSeq(s, 2, Len(s)))
    ELSE IF Len(s) > 0 /\ IsSpace(SubSeq(s, Len(s), Len(s)))
    THEN Strip(SubSeq(s, 1, Len(s) - 1))
    ELSE s

\* str.split(): the maximal runs of non-whitespace characters, in order
RECURSIVE SplitFrom(_, _, _)
SplitFrom(s, i, cur) ==
    IF i > Len(s) THEN (IF cur = "" THEN <<>> ELSE <<cur>>)
    ELSE IF IsSpace(SubSeq(s, i, i))
    THEN (IF cur = "" THEN SplitFrom(s, i + 1, "")
          ELSE <<cur>> \o SplitFrom(s, i + 1, ""))
    ELSE SplitFrom(s, i + 1, cur \o SubSeq(s, i, i))
Split(s) == SplitFrom(s, 1, "")

IdxStr == <<"1", "2", "3", "4", "5", "6">>

\* Python's s[-n:] for n > 0 is the last n items; s[-0:] is the whole list and
\* s[-n:] for n < 0 is s[|n|:], the list without its first |n| items.
PySliceFromNeg(s, n) ==
    IF n > 0 THEN (IF Len(s) <= n THEN s ELSE SubSeq(s, Len(s) - n + 1, Len(s)))
    ELSE IF n = 0 THEN s
    ELSE (IF Len(s) <= -n THEN <<>> ELSE SubSeq(s, 1 - n, Len(s)))

IsSuffix(a, b) ==
    /\ Len(a) <= Len(b)
    /\ a = SubSeq(b, Len(b) - Len(a) + 1, Len(b))

IsPrefix(a, b) ==
    /\ Len(a) <= Len(b)
    /\ a = SubSeq(b, 1, Len(a))

\* =================================================================== bridge
\* ai_service.py: one call of stream_response and its worker thread.
\*   gen    : "none" | "created" (generator object, body not started)
\*            | "waiting" (inside the poll loop, awaiting token_queue.get)
\*            | "suspended" (at `yield item`)
\*            | "ended" (StopAsyncIteration) | "raised" | "closed" (aclose)
\*   worker : "none" | "post" (about to POST) | "lines" (iterating the
\*            response lines) | "exit"
\*   queue  : token_queue;  flag : stop_event of ai_service.py:105
\*   out    : the items yielded to the caller so far
\*   nfrag, nlines, sawBad, fault : what the backend did on this stream
\*            (fragments and lines emitted, a non-JSON line seen, failure)
\*   sawStop : the worker found stop_event set and returned (lines 50-52)
NewBridge ==
    [gen |-> "none", worker |-> "none", queue |-> <<>>, flag |-> FALSE,
     out |-> <<>>, nfrag |-> 0, nlines |-> 0, sawBad |-> FALSE,
     fault |-> "none", caller |-> "none", sawStop |-> FALSE]

\* the content of the k-th fragment the backend emits
FragText == <<"t1", "t2", "t3", "t4", "t5">>

EndItem == [kind |-> "end", v |-> ""]
ErrItem(msg) == [kind |-> "error", v |-> msg]
TokItem(v) == [kind |-> "token", v |-> v]

\* The parameters stream_response declares (ai_service.py:80-84) and the
\* arguments _run_chat_stream passes (server.py:449-454).
StreamResponseParams == {"messages", "model", "ws_id"}
RunChatStreamArgs == {"messages", "model", "ws_id", "stop_event"}

\* (variant for C1, C4) a stream_response that takes, and ignores, any extra
\* keyword argument
CallBindsAnything(args) == TRUE

\* Python binds a call's arguments before the generator object exists: an
\* argument the function does not declare raises TypeError at the call.
CallBinds(args) == args \subseteq StreamResponseParams

\* The request stream_response builds from the list it is given
\* (ai_service.py:95-102): the system prompt, then every message in order.
SystemPrompt == "You are a helpful, concise, and intelligent AI assistant."
messages_for_api(messages) ==
    <<[role |-> "system", content |-> SystemPrompt]>>
    \o [i \in 1..Len(messages) |->
           [role |-> messages[i].role, content |-> messages[i].content]]

\* stream_response up to its first await: the reachability check, the queue,
\* the stop_event and the worker thread (ai_service.py:89-118).
StartBody(b, up) ==
    IF ~up
    THEN [b EXCEPT !.gen = "raised", !.fault = "unreachable"]
    ELSE [b EXCEPT !.gen = "waiting", !.worker = "post"]

PostFailures == {"connect", "http", "timeout"}

\* (variant for C8) a worker that ends the stream quietly when the request fails
WorkerPostedQuiet(b, r) ==
    IF r = "ok"
    THEN [b EXCEPT !.worker = "lines"]
    ELSE [b EXCEPT !.worker = "exit", !.fault = r, !.queue = Append(@, EndItem)]

\* requests.post + raise_for_status (ai_service.py:47-48); a failure is
\* caught at line 63 and put on the queue as the error item.
WorkerPosted(b, r) ==
    IF r = "ok"
    THEN [b EXCEPT !.worker = "lines"]
    ELSE [b EXCEPT !.worker = "exit", !.fault = r,
                   !.queue = Append(@, ErrItem(r))]

\* (variant for C9) a producer that lets the JSONDecodeError reach the outer
\* handler, which puts the error item and ends
OnBadJsonRaise(b) ==
    [b EXCEPT !.sawBad = TRUE, !.nlines = @ + 1, !.worker = "exit",
              !.queue = Append(@, ErrItem("JSONDecodeError"))]

\* What the producer does with a line that is not valid JSON
\* (ai_service.py:60-61): it skips the line.
OnBadJson(b) == [b EXCEPT !.sawBad = TRUE, !.nlines = @ + 1]

\* One turn of `for line in resp.iter_lines()` (ai_service.py:49-65).
\*   "frag"      a JSON object with a non-empty content fragment
\*   "blank"     an empty keep-alive line
\*   "nocontent" a JSON object whose content is empty
\*   "badjson"   a line that is not JSON
\*   "nonobject" valid JSON that is not an object (obj.get raises)
\*   "eos"       the backend closes the response: the loop ends
\*   "drop"      the read fails (connection error, read timeout)
Lines == {"frag", "blank", "nocontent", "badjson", "nonobject", "eos", "drop"}

\* (variant for C16) a producer that returns at the end of the response
\* without the sentinel
OnEosQuiet(b) == [b EXCEPT !.worker = "exit"]

\* ai_service.py:62: the response is exhausted, the sentinel None is put
OnEos(b) == [b EXCEPT !.worker = "exit", !.queue = Append(@, EndItem)]

\* (variant for C30) a producer that, finding stop_event set, still hands
\* over the line it holds before the sentinel
OnStopSeenFlush(b) ==
    [b EXCEPT !.worker = "exit", !.nlines = @ + 1, !.sawStop = TRUE,
              !.nfrag = @ + 1,
              !.queue = @ \o <<TokItem(FragText[b.nfrag + 1]), EndItem>>]

\* ai_service.py:50-52: stop_event is set, the sentinel is put and the
\* worker returns without looking at the line
OnStopSeen(b) ==
    [b EXCEPT !.worker = "exit", !.nlines = @ + 1, !.sawStop = TRUE,
              !.queue = Append(@, EndItem)]

WorkerLine(b, line) ==
    IF line = "eos"
    THEN OnEos(b)
    ELSE IF line = "drop"
    THEN [b EXCEPT !.worker = "exit", !.fault = "drop",
                   !.queue = Append(@, ErrItem("drop"))]
    ELSE IF b.flag
    THEN OnStopSeen(b)
    ELSE IF line = "blank" \/ line = "nocontent"
    THEN [b EXCEPT !.nlines = @ + 1]
    ELSE IF line = "badjson"
    THEN OnBadJson(b)
    ELSE IF line = "nonobject"
    THEN [b EXCEPT !.worker = "exit", !.fault = "nonobject", !.nlines = @ + 1,
                   !.queue = Append(@, ErrItem("nonobject"))]
    ELSE [b EXCEPT !.nlines = @ + 1, !.nfrag = @ + 1,
                   !.queue = Append(@, TokItem(FragText[b.nfrag + 1]))]

\* (variant for C15) a consumer on a last-in-first-out queue
ConsumerTakeLast(b) ==
    LET item == b.queue[Len(b.queue)]
        rest == [b EXCEPT !.queue = SubSeq(@, 1, Len(@) - 1)]
    IN  IF item.kind = "end" THEN [rest EXCEPT !.gen = "ended", !.flag = TRUE]
        ELSE IF item.kind = "error" THEN [rest EXCEPT !.gen = "raised", !.flag = TRUE]
        ELSE [rest EXCEPT !.gen = "suspended", !.out = Append(@, item.v)]

\* The consumer's turn on the item token_queue.get returned
\* (ai_service.py:131-137): None ends the generator, an error item raises,
\* anything else is yielded; leaving the loop runs `finally: stop_event.set()`.
ConsumerTake(b) ==
    LET item == Head(b.queue)
        rest == [b EXCEPT !.queue = Tail(@)]
    IN  IF item.kind = "end" THEN [rest EXCEPT !.gen = "ended", !.flag = TRUE]
        ELSE IF item.kind = "error" THEN [rest EXCEPT !.gen = "raised", !.flag = TRUE]
        ELSE [rest EXCEPT !.gen = "suspended", !.out = Append(@, item.v)]

\* aclose() on a generator suspended at the yield: GeneratorExit runs the
\* finally clause (ai_service.py:136-137); an unstarted generator just closes.
GenClose(b) ==
    IF b.gen = "suspended" THEN [b EXCEPT !.gen = "closed", !.flag = TRUE]
    ELSE [b EXCEPT !.gen = "closed"]

\* ============================================================ text chunker
\* app/core/text_chunker.py
word_count(text) == IF text = "" THEN 0 ELSE Len(Split(text))

\* (variant for C18) a loop that forgets the words left over at the end
RECURSIVE ChunkLoopNoTail(_, _, _)
ChunkLoopNoTail(words, max_words, current) ==
    IF words = <<>>
    THEN <<>>
    ELSE LET cur == Append(current, Head(words))
         IN  IF Len(cur) >= max_words
             THEN <<Join(" ", cur)>> \o ChunkLoopNoTail(Tail(words), max_words, <<>>)
             ELSE ChunkLoopNoTail(Tail(words), max_words, cur)

\* (variant for C19) a loop that closes a chunk one word too late
RECURSIVE ChunkLoopOver(_, _, _)
ChunkLoopOver(words, max_words, current) ==
    IF words = <<>>
    THEN (IF current # <<>> THEN <<Join(" ", current)>> ELSE <<>>)
    ELSE LET cur == Append(current, Head(words))
         IN  IF Len(cur) > max_words
             THEN <<Join(" ", cur)>> \o ChunkLoopOver(Tail(words), max_words, <<>>)
             ELSE ChunkLoopOver(Tail(words), max_words, cur)

\* the for loop of chunk_text (text_chunker.py:25-33)
RECURSIVE ChunkLoop(_, _, _)
ChunkLoop(words, max_words, current) ==
    IF words = <<>>
    THEN (IF current # <<>> THEN <<Join(" ", current)>> ELSE <<>>)
    ELSE LET cur == Append(current, Head(words))
         IN  IF Len(cur) >= max_words
             THEN <<Join(" ", cur)>> \o ChunkLoop(Tail(words), max_words, <<>>)
             ELSE ChunkLoop(Tail(words), max_words, cur)

chunk_text(text, max_words) ==
    IF text = "" \/ word_count(text) <= max_words
    THEN (IF text # "" THEN <<text>> ELSE <<>>)
    ELSE ChunkLoop(Split(text), max_words, <<>>)

\* ============================================================ summarization
\* ai_service.summarize_long_text: one blocking backend call per chunk;
\* replies[i] is what the backend does on the call for chunk i.
ChunkSeparator == "\n\n---\n\n"

\* (variant for C21) a loop that leaves a failed chunk's part empty
SummaryOfSilent(i, reply) ==
    IF reply.ok THEN Strip(reply.text) ELSE ""

\* ai_service.py:161-163: the trimmed output, or the placeholder
SummaryOf(i, reply) ==
    IF reply.ok THEN Strip(reply.text)
    ELSE "[Chunk " \o IdxStr[i] \o " summary failed: " \o reply.text \o "]"

summarize_long_text(raw_text, replies) ==
    LET chunks == chunk_text(raw_text, MAX_FILE_WORDS)
    IN  IF chunks = <<>> THEN ""
        ELSE Join(ChunkSeparator,
                  [i \in 1..Len(chunks) |-> SummaryOf(i, replies[i])])

\* ============================================================= upload cache
\* server.py:26-49. The dictionary is a sequence of entries in insertion order.
StoreIds(store) == {store[i].id : i \in 1..Len(store)}

\* (variant for C26) an eviction that spares the oldest entry
EvictOther(store) ==
    IF Len(store) > UPLOAD_MAX_ENTRIES
    THEN <<Head(store)>> \o SubSeq(store, 3, Len(store))
    ELSE store

RECURSIVE EvictOldest(_)
EvictOldest(store) ==
    IF Len(store) > UPLOAD_MAX_ENTRIES THEN EvictOldest(Tail(store)) ELSE store

\* (variant for C27) a store that never evicts
_store_uploadUnbounded(store, file_id, name, text) ==
    Append(store, [id |-> file_id, name |-> name, text |-> text])

_store_upload(store, file_id, name, text) ==
    LET rec == [id |-> file_id, name |-> name, text |-> text]
        put == IF file_id \in StoreIds(store)
               THEN [i \in 1..Len(store) |->
                        IF store[i].id = file_id THEN rec ELSE store[i]]
               ELSE Append(store, rec)
    IN  EvictOldest(put)

_get_upload(store, file_id) ==
    IF file_id = None \/ file_id = "" \/ file_id \notin StoreIds(store)
    THEN [found |-> FALSE, name |-> "", text |-> ""]
    ELSE LET i == CHOOSE j \in 1..Len(store) : store[j].id = file_id
         IN  [found |-> TRUE, name |-> store[i].name, text |-> store[i].text]

\* ========================================================= message assembly
\* server.py:470-517
QuestionMark == "\n\nUser question: "

_build_user_message_with_file(user_message, file_name, file_text, replies) ==
    IF word_count(file_text) <= MAX_FILE_WORDS
    THEN "[File: " \o file_name \o "]\n" \o file_text \o QuestionMark \o user_message
    ELSE "[File: " \o file_name \o " - summarized content below]\n"
         \o summarize_long_text(file_text, replies) \o QuestionMark \o user_message

\* one.split("\n\nUser question:")[0].strip() of a part built with an empty
\* question: the part without its trailing question marker
PartOf(item, replies) ==
    LET one == _build_user_message_with_file("", item.name, item.text, replies)
    IN  Strip(SubSeq(one, 1, Len(one) - Len(QuestionMark)))

_build_user_message_with_files(user_message, items, replies) ==
    IF Len(items) = 1
    THEN _build_user_message_with_file(user_message, items[1].name,
                                       items[1].text, replies)
    ELSE LET combined == Join(ChunkSeparator,
                              [i \in 1..Len(items) |-> PartOf(items[i], replies)])
         IN  IF user_message # ""
             THEN combined \o QuestionMark \o user_message
             ELSE combined

\* ================================================================= sessions
\* server.py:52-55
NoEvent == 0
NewSession == [messages |-> <<>>, conversation_title |-> "New Chat",
               stop_event |-> NoEvent]

Msg(role, content) == [role |-> role, content |-> content]

\* What goes to the client: the type, the stream it belongs to (0: sent by
\* the receive loop itself) and the content or error text.
Out(type, stream, content) == [type |-> type, stream |-> stream, content |-> content]

\* _ws_send_json_safe (server.py:58-66): nothing reaches a closed connection.
Send(log, state, msgs) == IF state = "open" THEN log \o msgs ELSE log

\* the error messages the receive loop itself has sent on a connection
LoopErrors(log) == Len(SelectSeq(log, LAMBDA o : o.stream = 0))

\* the directives answered so far (see MaxDirectives)
Answered(ws) == nstreams + LoopErrors(sent[ws])

\* ---- the chat directive, server.py:326-380
\* file_ids as the handler uses them (server.py:328-331)
FileIdsOf(d) ==
    IF d.file_id # None /\ d.file_id # "" /\ d.file_ids = <<>>
    THEN <<d.file_id>> ELSE d.file_ids

\* the first requested id that is not in the upload cache, or None
RECURSIVE FirstMissing(_, _)
FirstMissing(store, file_ids) ==
    IF file_ids = <<>> THEN None
    ELSE IF ~_get_upload(store, Head(file_ids)).found THEN Head(file_ids)
    ELSE FirstMissing(store, Tail(file_ids))

\* user_text as it stands at server.py:355
UserText(d, store) ==
    LET message == Strip(d.message)
        file_ids == FileIdsOf(d)
    IN  IF file_ids = <<>> \/ FirstMissing(store, file_ids) # None THEN message
        ELSE _build_user_message_with_files(
                 message,
                 [i \in 1..Len(file_ids) |-> _get_upload(store, file_ids[i])],
                 d.replies)

\* The error messages the receive loop sends for a chat directive before it
\* touches the session (server.py:334-357), in order.
ChatErrors(d, store) ==
    LET message == Strip(d.message)
        file_ids == FileIdsOf(d)
        missing == FirstMissing(store, file_ids)
    IN  IF message = "" /\ file_ids = <<>> THEN <<"Empty message">>
        ELSE (IF missing # None THEN <<"File not found: " \o missing>> ELSE <<>>)
             \o (IF Len(UserText(d, store)) > MAX_MESSAGE_LENGTH
                 THEN <<"Message too long">> ELSE <<>>)

\* (variant for C10) a loop that reports the over-long message and goes on
ChatAcceptedAnyLength(d, store) ==
    ~(Strip(d.message) = "" /\ FileIdsOf(d) = <<>>)

\* Whether the directive reaches server.py:359, i.e. no `continue` was taken.
ChatAccepted(d, store) ==
    /\ ~(Strip(d.message) = "" /\ FileIdsOf(d) = <<>>)
    /\ Len(UserText(d, store)) <= MAX_MESSAGE_LENGTH

\* server.py:360-364: a client-supplied history replaces the session's, and
\* then the new user message is not appended. d.history is
\* [given |-> isinstance(history, list), items |-> its elements].
HistoryFilter(history) ==
    SelectSeq(history, LAMBDA m : m.isdict /\ m.role # None /\ m.role # "")
HistoryEntries(history) ==
    LET kept == HistoryFilter(history)
    IN  [i \in 1..Len(kept) |->
            Msg(kept[i].role, IF kept[i].content = None THEN "" ELSE kept[i].content)]

AfterHistory(messages, d, user_text) ==
    IF d.history.given THEN HistoryEntries(d.history.items)
    ELSE Append(messages, Msg("user", user_text))

\* (variant for C36) a merge written into the oldest entry
AfterFileRewriteFirst(messages, d, user_text) ==
    IF FileIdsOf(d) # <<>> /\ messages # <<>> /\ Last(messages).role = "user"
    THEN [messages EXCEPT ![1] = Msg("user", user_text)]
    ELSE messages

\* server.py:366-368
AfterFileRewrite(messages, d, user_text) ==
    IF FileIdsOf(d) # <<>> /\ messages # <<>> /\ Last(messages).role = "user"
    THEN [messages EXCEPT ![Len(messages)] = Msg("user", user_text)]
    ELSE messages

\* (variant for C6) a cap that keeps the head of the list
CapOnChatHead(messages) ==
    IF Len(messages) >= MAX_SESSION_MESSAGES
    THEN SubSeq(messages, 1, MAX_SESSION_MESSAGES - 2)
    ELSE messages

\* server.py:370-373
CapOnChat(messages) ==
    IF Len(messages) >= MAX_SESSION_MESSAGES
    THEN PySliceFromNeg(messages, MAX_SESSION_MESSAGES - 2)
    ELSE messages

\* server.py:375-376
TitleOf(title, user_text) ==
    IF title = "New Chat" /\ user_text # ""
    THEN (IF Len(user_text) > TITLE_LIMIT
          THEN SubSeq(user_text, 1, TITLE_LIMIT) \o "..." ELSE user_text)
    ELSE title

\* server.py:458-460: the history after a stream that ended normally
CapOnDone(messages) ==
    IF Len(messages) > MAX_SESSION_MESSAGES
    THEN PySliceFromNeg(messages, MAX_SESSION_MESSAGES)
    ELSE messages

AfterDone(messages, full_reply) ==
    CapOnDone(Append(messages, Msg("assistant", Concat(full_reply))))

\* server.py:461-465: the history after a stream that raised
AfterError(messages, err_msg) ==
    Append(messages, Msg("assistant", "Error: " \o err_msg))

\* server.py:462
ErrMsg(e) == IF e # "" THEN e ELSE "Generation failed"

\* =================================================================== inputs
\* what the backend does on the summarization call for chunk i
AllOk == [i \in 1..3 |-> [ok |-> TRUE, text |-> " sum "]]
SecondFails == [AllOk EXCEPT ![2] = [ok |-> FALSE, text |-> "timeout"]]

DocShort == "alpha beta"
DocLong == "one two three"

\* The upload cache a run with attachments starts from: what _store_upload
\* leaves after two uploads.
StoreOne == _store_upload(<<>>, "f1", "a.txt", DocShort)
StoreTwo == _store_upload(StoreOne, "f2", "b.txt", DocLong)

NoHistory == [given |-> FALSE, items |-> <<>>]
HItem(isdict, role, content) == [isdict |-> isdict, role |-> role, content |-> content]
\* a saved conversation, one entry short of the cap, with an element that is
\* no dict, one without a role and one without content
HistoryShort ==
    [given |-> TRUE,
     items |-> <<HItem(TRUE, "user", "old q"), HItem(FALSE, None, None),
                 HItem(TRUE, "", "x"), HItem(TRUE, "assistant", None),
                 HItem(TRUE, "user", "next q")>>]
HistoryLong ==
    [given |-> TRUE,
     items |-> [i \in 1..(MAX_SESSION_MESSAGES + 1) |->
                   HItem(TRUE, IF i % 2 = 1 THEN "user" ELSE "assistant",
                         "h" \o IdxStr[i])]]
HistoryEmpty == [given |-> TRUE, items |-> <<>>]

D(message, file_id, file_ids, history, replies) ==
    [message |-> message, file_id |-> file_id, file_ids |-> file_ids,
     history |-> history, replies |-> replies]

LongMessage ==
    "xxxxxxxxxxxxxxxxxxxxxxxxxxxxxxxxxxxxxxxxxxxxxxxxxxxxxxxxxxxxxxxxxxxxxxxxxxxxxxxxxxxxxxxxxx"
TitleMessage == "  summarise the report "

\* The chat directives of a client that only types, of one that reloads a
\* saved conversation, and of one that attaches uploaded documents.
ChatInputs(kind) ==
    IF kind = "plain"
    THEN { D("hi", None, <<>>, NoHistory, AllOk),
           D(TitleMessage, None, <<>>, NoHistory, AllOk),
           D("New Chat", None, <<>>, NoHistory, AllOk),
           D("", None, <<>>, NoHistory, AllOk),
           D("  ", None, <<>>, NoHistory, AllOk),
           D(LongMessage, None, <<>>, NoHistory, AllOk) }
    ELSE IF kind = "history"
    THEN { D("hi", None, <<>>, NoHistory, AllOk),
           D("hi", None, <<>>, HistoryShort, AllOk),
           D("hi", None, <<>>, HistoryLong, AllOk),
           D("hi", None, <<>>, HistoryEmpty, AllOk) }
    ELSE { D("", "f1", <<>>, NoHistory, AllOk),
           D("q", None, <<"f1">>, NoHistory, AllOk),
           D("q", None, <<"f1", "f2">>, NoHistory, SecondFails),
           D("", None, <<"f9">>, NoHistory, AllOk),
           D("", None, <<>>, NoHistory, AllOk),
           D(TitleMessage \o LongMessage, "f1", <<>>, NoHistory, AllOk) }

Clients == {"plain", "history", "files"}

\* ==================================================================== state
\* no library call in progress
NoCall == [fn |-> "none"]

NewTask == [ws |-> "w1", pc |-> "none", ev |-> "none", reply |-> <<>>, err |-> ""]

Init ==
    /\ entry \in {"websocket", "direct"}
    /\ client \in (IF entry = "websocket" THEN Clients ELSE {"plain"})
    /\ bridge = [s \in StreamIds |-> NewBridge]
    /\ task = [s \in StreamIds |-> NewTask]
    /\ sessions = [c \in Conns |-> NewSession]
    /\ registry = {}
    /\ conn = [c \in Conns |-> "new"]
    /\ sent = [c \in Conns |-> <<>>]
    /\ nstreams = 0
    /\ upload_store = IF client = "files" THEN StoreTwo ELSE <<>>
    /\ call = NoCall

\* ====================================================== the receive loop
\* server.py:289-293: accept, then _get_or_create_session
Connect(ws) ==
    /\ entry = "websocket"
    /\ conn[ws] = "new"
    /\ conn' = [conn EXCEPT ![ws] = "open"]
    /\ registry' = registry \cup {ws}
    /\ sessions' = [sessions EXCEPT ![ws] = NewSession]
    /\ UNCHANGED <<call, entry, client, bridge, task, sent, nstreams, upload_store>>

\* server.py:326-380, one chat directive
RecvChat(ws, d) ==
    /\ conn[ws] = "open"
    /\ LET s == sessions[ws]
           user_text == UserText(d, upload_store)
           errors == ChatErrors(d, upload_store)
           outs == [i \in 1..Len(errors) |-> Out("error", 0, errors[i])]
           m1 == AfterFileRewrite(AfterHistory(s.messages, d, user_text), d, user_text)
           m2 == CapOnChat(m1)
           t == nstreams + 1
       IN  /\ sent' = [sent EXCEPT ![ws] = Send(@, conn[ws], outs)]
           /\ IF ChatAccepted(d, upload_store)
              THEN /\ Answered(ws) + Len(errors) < MaxDirectives
                   /\ sessions' = [sessions EXCEPT ![ws] =
                          [s EXCEPT !.messages = m2,
                                    !.conversation_title = TitleOf(@, user_text)]]
                   /\ task' = [task EXCEPT ![t] = [NewTask EXCEPT !.ws = ws,
                                                                 !.pc = "created"]]
                   /\ nstreams' = t
              ELSE /\ Answered(ws) + Len(errors) <= MaxDirectives
                   /\ UNCHANGED <<sessions, task, nstreams>>
    /\ UNCHANGED <<call, entry, client, bridge, registry, conn, upload_store>>

\* (variant for C13) a stop that, finding no stop_event in the session, sets
\* the event of the stream started last
OnStopLatest(tasks, e, latest) ==
    IF e # NoEvent THEN [tasks EXCEPT ![e].ev = "set"]
    ELSE IF latest > 0 THEN [tasks EXCEPT ![latest].ev = "set"]
    ELSE tasks

\* server.py:382-383: the event the session holds, if any, is set
OnStop(tasks, e, latest) ==
    IF e # NoEvent THEN [tasks EXCEPT ![e].ev = "set"] ELSE tasks

\* server.py:381-383, the stop directive
RecvStop(ws) ==
    /\ conn[ws] = "open"
    /\ task' = OnStop(task, sessions[ws].stop_event, nstreams)
    /\ UNCHANGED <<call, entry, client, bridge, sessions, registry, conn, sent, nstreams,
                   upload_store>>

\* the directive types the loop dispatches on (server.py:326-425)
KnownTypes == {"chat", "stop", "load_conversation", "folder_summary",
               "multi_file_summary"}
\* types a client may send that the loop does not know; "None" is what the
\* f-string of server.py:427 prints for a directive without a type
UnknownTypes == {"ping", "None"}

\* (variant for C11) a loop that gives up on a directive it does not know
AfterUnknownClose(state) == "closed"

\* server.py:426-427: after the reply the loop goes on to the next receive
AfterUnknown(state) == state

\* server.py:426-427: the reply to a directive of an unknown type
UnknownTypeReply(msg_type) ==
    IF msg_type \in KnownTypes THEN <<>>
    ELSE <<Out("error", 0, "Unknown type: " \o msg_type)>>

\* server.py:325 and 426-427, a directive whose type is not a known one
RecvUnknown(ws, msg_type) ==
    /\ conn[ws] = "open"
    /\ Answered(ws) < MaxDirectives
    /\ sent' = [sent EXCEPT ![ws] = Send(@, conn[ws], UnknownTypeReply(msg_type))]
    /\ conn' = [conn EXCEPT ![ws] = AfterUnknown(@)]
    /\ registry' = IF conn'[ws] = "open" THEN registry ELSE registry \ {ws}
    /\ UNCHANGED <<call, entry, client, bridge, task, sessions, nstreams,
                   upload_store>>

\* the ways the receive loop ends: the disconnect message (server.py:300-301),
\* WebSocketDisconnect raised by a receive or a send, and any other exception
\* that escapes the loop body, e.g. AttributeError for a directive that is
\* valid JSON but no object (server.py:325)
LoopEnds == {"disconnect", "WebSocketDisconnect", "Exception"}

\* (variant for C28) a registry cleaned up on the disconnect paths only
AfterLoopOnDisconnect(reg, ws, cause) ==
    IF cause = "Exception" THEN reg ELSE reg \ {ws}

\* server.py:428-433: whatever ended the loop, the finally clause pops the
\* connection's record
AfterLoop(reg, ws, cause) == reg \ {ws}

\* server.py:300-301 and 428-433: the connection ends
RecvDisconnect(ws) ==
    /\ conn[ws] = "open"
    /\ conn' = [conn EXCEPT ![ws] = "closed"]
    /\ \E cause \in LoopEnds : registry' = AfterLoop(registry, ws, cause)
    /\ UNCHANGED <<call, entry, client, bridge, task, sessions, sent, nstreams,
                   upload_store>>

\* ==================================================== the chat stream task
TypeErrorText == "stream_response() got an unexpected keyword argument"
NotRunningText == "Ollama is not running. Please start Ollama."

\* (variant for C32) a task that reports done before the error
OnStreamErrorAfterDone(t, err_msg) ==
    <<Out("done", t, ""), Out("error", t, err_msg)>>

\* server.py:461-464: what the except clause sends for stream t
OnStreamError(t, err_msg) == <<Out("error", t, err_msg)>>

\* _run_chat_stream from its first line to its first suspension
\* (server.py:445-456). The task makes its stop_event the session's, then
\* calls stream_response: a call that does not bind raises TypeError inside
\* the try block; one that binds runs the generator to its first await.
TaskStart(t, up) ==
    /\ task[t].pc = "created"
    /\ LET ws == task[t].ws
           binds == CallBinds(RunChatStreamArgs)
           b == StartBody([NewBridge EXCEPT !.gen = "created", !.caller = "task"], up)
           err == IF ~binds THEN TypeErrorText
                  ELSE IF b.gen = "raised" THEN NotRunningText ELSE ""
       IN  /\ sessions' = [sessions EXCEPT ![ws].stop_event = t]
           /\ bridge' = IF binds THEN [bridge EXCEPT ![t] = b] ELSE bridge
           /\ IF err # ""
              THEN /\ task' = [task EXCEPT ![t].pc = "errSent", ![t].ev = "clear",
                                           ![t].err = ErrMsg(err)]
                   /\ sent' = [sent EXCEPT ![ws] =
                          Send(@, conn[ws], OnStreamError(t, ErrMsg(err)))]
              ELSE /\ task' = [task EXCEPT ![t].pc = "streaming", ![t].ev = "clear"]
                   /\ UNCHANGED sent
    /\ UNCHANGED <<call, entry, client, registry, conn, nstreams, upload_store>>

\* The task resumes after the send it awaited on its way out
\* (server.py:457-467): the reply or the error placeholder is appended, the
\* history is capped after a normal end only, and the finally clause clears
\* the session's stop_event.
TaskResume(t) ==
    /\ task[t].pc \in {"doneSent", "errSent"}
    /\ LET ws == task[t].ws
           s == sessions[ws]
           m == IF task[t].pc = "doneSent" THEN AfterDone(s.messages, task[t].reply)
                ELSE AfterError(s.messages, task[t].err)
       IN  /\ sessions' = [sessions EXCEPT ![ws] =
                  [s EXCEPT !.messages = m, !.stop_event = NoEvent]]
    /\ task' = [task EXCEPT ![t].pc = "done"]
    /\ UNCHANGED <<call, entry, client, bridge, registry, conn, sent, nstreams,
                   upload_store>>

\* ============================================================ direct caller
\* A caller that invokes stream_response with the parameters it declares
\* (ai_service.py:80-84) and drives the generator itself.
DirectCall(st) ==
    /\ entry = "direct"
    /\ st = nstreams + 1
    /\ st <= MaxDirect
    /\ \A o \in StreamIds : bridge[o].gen \in {"none", "ended", "raised", "closed"}
    /\ CallBinds(StreamResponseParams)
    /\ bridge' = [bridge EXCEPT ![st] = [NewBridge EXCEPT !.gen = "created",
                                                         !.caller = "direct"]]
    /\ nstreams' = st
    /\ UNCHANGED <<call, entry, client, task, sessions, registry, conn, sent,
                   upload_store>>

\* __anext__ on a generator that is not running: the first one runs the body
\* to its first await, a later one resumes it from the yield.
DirectNext(st, up) ==
    /\ bridge[st].caller = "direct"
    /\ bridge[st].gen \in {"created", "suspended"}
    /\ bridge' = [bridge EXCEPT ![st] =
           IF @.gen = "created" THEN StartBody(@, up) ELSE [@ EXCEPT !.gen = "waiting"]]
    /\ UNCHANGED <<call, entry, client, task, sessions, registry, conn, sent, nstreams,
                   upload_store>>

\* aclose() by the caller between two items
DirectClose(st) ==
    /\ bridge[st].caller = "direct"
    /\ bridge[st].gen \in {"created", "suspended"}
    /\ bridge' = [bridge EXCEPT ![st] = GenClose(@)]
    /\ UNCHANGED <<call, entry, client, task, sessions, registry, conn, sent, nstreams,
                   upload_store>>

\* ================================================== producer and consumer
\* The worker thread posts the request (ai_service.py:47-48).
WorkerPost(st, r) ==
    /\ bridge[st].worker = "post"
    /\ bridge' = [bridge EXCEPT ![st] = WorkerPosted(@, r)]
    /\ UNCHANGED <<call, entry, client, task, sessions, registry, conn, sent, nstreams,
                   upload_store>>

\* The worker thread reads the next line, or the end, of the response
\* (ai_service.py:49-65).
WorkerRead(st, line) ==
    /\ bridge[st].worker = "lines"
    /\ line \in {"eos", "drop"} \/ bridge[st].nlines < MaxLines
    /\ bridge' = [bridge EXCEPT ![st] = WorkerLine(@, line)]
    /\ UNCHANGED <<call, entry, client, task, sessions, registry, conn, sent, nstreams,
                   upload_store>>

\* token_queue.get returns an item to the generator (ai_service.py:121-137).
\* For a direct caller the generator ends, raises or suspends at the yield.
\* For a chat task the `async for` of server.py:449-457 takes the outcome:
\* a token is added to full_reply, sent, and the next item awaited; the end
\* sends done; an error sends the error message.
ConsumerGet(st) ==
    /\ bridge[st].gen = "waiting"
    /\ bridge[st].queue # <<>>
    /\ LET b == ConsumerTake(bridge[st])
           ws == task[st].ws
       IN  IF b.caller = "direct"
           THEN /\ bridge' = [bridge EXCEPT ![st] = b]
                /\ UNCHANGED <<task, sent>>
           ELSE IF b.gen = "suspended"
           THEN /\ bridge' = [bridge EXCEPT ![st] = [b EXCEPT !.gen = "waiting"]]
                /\ task' = [task EXCEPT ![st].reply = Append(@, Last(b.out))]
                /\ sent' = [sent EXCEPT ![ws] =
                       Send(@, conn[ws], <<Out("token", st, Last(b.out))>>)]
           ELSE IF b.gen = "ended"
           THEN /\ bridge' = [bridge EXCEPT ![st] = b]
                /\ task' = [task EXCEPT ![st].pc = "doneSent"]
                /\ sent' = [sent EXCEPT ![ws] =
                       Send(@, conn[ws], <<Out("done", st, "")>>)]
           ELSE /\ bridge' = [bridge EXCEPT ![st] = b]
                /\ task' = [task EXCEPT ![st].pc = "errSent",
                                        ![st].err = ErrMsg(Head(bridge[st].queue).v)]
                /\ sent' = [sent EXCEPT ![ws] =
                       Send(@, conn[ws],
                            OnStreamError(st, ErrMsg(Head(bridge[st].queue).v)))]
    /\ UNCHANGED <<call, entry, client, sessions, registry, conn, nstreams,
                   upload_store>>

\* ============================================================ specification
\* the connections the specification exercises
SpecConns == {"w1"}

Next ==
    \/ \E ws \in SpecConns : Connect(ws)
    \/ \E ws \in SpecConns, d \in ChatInputs(client) : RecvChat(ws, d)
    \/ \E ws \in SpecConns : RecvStop(ws)
    \/ \E ws \in SpecConns, ty \in UnknownTypes : RecvUnknown(ws, ty)
    \/ \E ws \in SpecConns : RecvDisconnect(ws)
    \/ \E t \in StreamIds, up \in BOOLEAN : TaskStart(t, up)
    \/ \E t \in StreamIds : TaskResume(t)
    \/ \E st \in StreamIds : DirectCall(st)
    \/ \E st \in StreamIds, up \in BOOLEAN : DirectNext(st, up)
    \/ \E st \in StreamIds : DirectClose(st)
    \/ \E st \in StreamIds, r \in {"ok"} \cup PostFailures : WorkerPost(st, r)
    \/ \E st \in StreamIds, line \in Lines : WorkerRead(st, line)
    \/ \E st \in StreamIds : ConsumerGet(st)

Spec == Init /\ [][Next]_vars

\* ================================================= chunking and summarizing
\* Runs in which chunk_text and summarize_long_text are called on their own.
Words == {"a", "bb"}
Seps == {" ", "\n\n"}

\* the texts of exactly n words, each word joined to the next by a separator
RECURSIVE TextsOf(_)
TextsOf(n) ==
    IF n = 0 THEN {""}
    ELSE IF n = 1 THEN Words
    ELSE {t \o sep \o w : t \in TextsOf(n - 1), sep \in Seps, w \in Words}

\* the empty text, a blank one, and the texts of up to MaxWords words with
\* and without whitespace around them
Texts ==
    {"", "  "} \cup
    UNION {UNION {{t, " " \o t \o "\n"} : t \in TextsOf(n)} : n \in 1..MaxWords}

\* the texts handed to summarize_long_text: the empty one, the blank one and
\* those whose words are one space apart
SumTexts == {t \in Texts : t = "" \/ t = "  " \/ t = Join(" ", Split(t))}

\* what the backend does on one summarization call
Replies == {[ok |-> TRUE, text |-> " sum "], [ok |-> FALSE, text |-> "timeout"]}

LibInit ==
    /\ entry = "library"
    /\ client = "plain"
    /\ bridge = [s \in StreamIds |-> NewBridge]
    /\ task = [s \in StreamIds |-> NewTask]
    /\ sessions = [c \in Conns |-> NewSession]
    /\ registry = {}
    /\ conn = [c \in Conns |-> "new"]
    /\ sent = [c \in Conns |-> <<>>]
    /\ nstreams = 0
    /\ upload_store = <<>>
    /\ call = NoCall

\* chunk_text(text, max_words), text_chunker.py:15-35
ChunkCall(text, max_words) ==
    /\ call = NoCall
    /\ call' = [fn |-> "chunk_text", text |-> text, max_words |-> max_words,
                chunks |-> chunk_text(text, max_words)]
    /\ UNCHANGED <<entry, client, bridge, task, sessions, registry, conn, sent,
                   nstreams, upload_store>>

\* summarize_long_text up to its loop (ai_service.py:142-150); log is what
\* the backend sees: the start and the end of every call made to it
SumStart(text) ==
    /\ call = NoCall
    /\ LET chunks == chunk_text(text, MAX_FILE_WORDS)
       IN  call' = [fn |-> "summarize_long_text", text |-> text, chunks |-> chunks,
                    pc |-> IF chunks = <<>> THEN "returned" ELSE "loop",
                    summaries |-> <<>>, replies |-> <<>>, log |-> <<>>,
                    result |-> ""]
    /\ UNCHANGED <<entry, client, bridge, task, sessions, registry, conn, sent,
                   nstreams, upload_store>>

\* the calls inside which summarize_long_text runs: its own, and that of
\* _build_user_message_with_file for a long document (server.py:485)
Summarizing == {"summarize_long_text", "_build_user_message_with_file"}

\* the backend calls begun so far
Begun(log) == Len(SelectSeq(log, LAMBDA e : e.ev = "call"))

\* (variant for C20) a loop that starts its calls without awaiting them
CallAllowedAnytime(pc) == pc \in {"loop", "calling"}

\* ai_service.py:151-154: the next call is begun by the loop body, which
\* awaits each call before it goes on
CallAllowed(pc) == pc = "loop"

\* the loop body begins the call for the next chunk (ai_service.py:151-160)
SumCall ==
    /\ call.fn \in Summarizing
    /\ CallAllowed(call.pc)
    /\ Begun(call.log) < Len(call.chunks)
    /\ call' = [call EXCEPT !.pc = "calling",
                            !.log = Append(@, [ev |-> "call", idx |-> Begun(@) + 1,
                                               chunk |-> call.chunks[Begun(@) + 1]])]
    /\ UNCHANGED <<entry, client, bridge, task, sessions, registry, conn, sent,
                   nstreams, upload_store>>

\* the call returns or raises (ai_service.py:161-163)
SumReturn(reply) ==
    /\ call.fn \in Summarizing
    /\ call.pc = "calling"
    /\ LET i == Len(call.summaries) + 1
       IN  call' = [call EXCEPT
                       !.pc = "loop",
                       !.summaries = Append(@, SummaryOf(i, reply)),
                       !.replies = Append(@, reply),
                       !.log = Append(@, [ev |-> "ret", idx |-> i,
                                          chunk |-> call.chunks[i]])]
    /\ UNCHANGED <<entry, client, bridge, task, sessions, registry, conn, sent,
                   nstreams, upload_store>>

\* the loop is over: the summaries are joined (ai_service.py:164)
SumDone ==
    /\ call.fn \in Summarizing
    /\ call.pc = "loop"
    /\ Len(call.summaries) = Len(call.chunks)
    /\ call' = [call EXCEPT !.pc = "returned",
                            !.result = Join(ChunkSeparator, call.summaries)]
    /\ UNCHANGED <<entry, client, bridge, task, sessions, registry, conn, sent,
                   nstreams, upload_store>>

LibNext ==
    \/ \E text \in Texts, max_words \in 1..MaxM : ChunkCall(text, max_words)
    \/ \E text \in SumTexts : SumStart(text)
    \/ SumCall
    \/ \E reply \in Replies : SumReturn(reply)
    \/ SumDone

LibSpec == LibInit /\ [][LibNext]_vars

\* ====================================================== batch summaries
\* app/core/folder_agent.py and the two batch directives of the receive loop
\* (server.py:386-425). A path is the sequence of its components, each a
\* position in Names: pathlib compares paths component by component.
Names == <<"a.txt", "b.csv", "c.pdf", "notes.md", "sub">>
NameOf(path) == Names[path[Len(path)]]
SUPPORTED_EXTENSIONS == {"a.txt", "b.csv", "c.pdf"}

\* p < q for two paths
RECURSIVE PathLess(_, _)
PathLess(p, q) ==
    IF q = <<>> THEN FALSE
    ELSE IF p = <<>> THEN TRUE
    ELSE IF Head(p) # Head(q) THEN Head(p) < Head(q)
    ELSE PathLess(Tail(p), Tail(q))

\* sorted(...) of a set of paths
RECURSIVE SortedPaths(_)
SortedPaths(ps) ==
    IF ps = {} THEN <<>>
    ELSE LET least == CHOOSE x \in ps : \A y \in ps \ {x} : PathLess(x, y)
         IN  <<least>> \o SortedPaths(ps \ {least})

\* sorted in reverse
RECURSIVE ReversedPaths(_)
ReversedPaths(ps) ==
    IF ps = {} THEN <<>>
    ELSE LET greatest == CHOOSE x \in ps : \A y \in ps \ {x} : PathLess(y, x)
         IN  <<greatest>> \o ReversedPaths(ps \ {greatest})

\* the files of a folder that a scan looks at: its children, or with
\* recursive=True everything below it, with a supported suffix
Candidates(folder, recursive) ==
    {f.path : f \in {g \in folder.files :
                        /\ recursive \/ Len(g.path) = 1
                        /\ NameOf(g.path) \in SUPPORTED_EXTENSIONS}}

\* (variant for C24) a scan that returns the files in another order
collect_supported_filesUnsorted(folder, recursive) ==
    ReversedPaths(Candidates(folder, recursive))

\* file_parser.collect_supported_files (file_parser.py:15-25)
collect_supported_files(folder, recursive) ==
    SortedPaths(Candidates(folder, recursive))

FileAt(folder, path) == CHOOSE f \in folder.files : f.path = path

\* ---- inputs
File(path, readable, text) == [path |-> path, readable |-> readable, text |-> text]
\* three supported files of which the second cannot be read, a file with an
\* unsupported suffix, and an empty file in a subfolder
FolderThree ==
    [name |-> "reports", kind |-> "dir",
     files |-> {File(<<3>>, TRUE, DocShort), File(<<1>>, TRUE, DocLong),
                File(<<2>>, FALSE, ""), File(<<4>>, TRUE, DocShort),
                File(<<5, 1>>, TRUE, "")}]
FolderEmpty ==
    [name |-> "empty", kind |-> "dir", files |-> {File(<<4>>, TRUE, DocShort)}]
FolderMissing == [name |-> "gone", kind |-> "missing", files |-> {}]
FolderNoPath == [name |-> "", kind |-> "dir", files |-> {}]
Folders == {FolderThree, FolderEmpty, FolderMissing, FolderNoPath}

AllFail == [i \in 1..3 |-> [ok |-> FALSE, text |-> "timeout"]]
\* what happens when an item is summarized: the backend answers each chunk
\* call as replies says, or summarize_long_text itself raises
SumOutcomes ==
    {[raises |-> FALSE, replies |-> AllOk], [raises |-> FALSE, replies |-> AllFail],
     [raises |-> TRUE, replies |-> AllOk]}

IdLists == {<<"f2", "f1">>, <<"f1">>, <<"f1", "f9">>, <<>>}

\* ---- the batch
\* (variant for C22) a result that never carries an error
ResultNoError(path, name, summary, error) ==
    [path |-> path, name |-> name, summary |-> summary, error |-> None]

\* one yielded dict (folder_agent.py:63-68)
Result(path, name, summary, error) ==
    [path |-> path, name |-> name, summary |-> summary, error |-> error]

\* what was done for an item, beside its result
Outcome(kind, raises, replies) == [kind |-> kind, raises |-> raises, replies |-> replies]

\* the folder_file message of server.py:399 and 419
FolderFile(r) ==
    [type |-> "folder_file", stream |-> 0, name |-> r.name, summary |-> r.summary,
     error |-> r.error]

NewBatch(fn, ws, request, items) ==
    [fn |-> fn, ws |-> ws, request |-> request, items |-> items, pc |-> "next",
     text |-> "",
     results |-> <<>>, outcomes |-> <<>>, nsent |-> 0, log |-> <<>>]

BatchInit ==
    /\ entry = "batch"
    /\ client = "plain"
    /\ bridge = [s \in StreamIds |-> NewBridge]
    /\ task = [s \in StreamIds |-> NewTask]
    /\ sessions = [c \in Conns |-> NewSession]
    /\ registry = {}
    /\ conn = [c \in Conns |-> "new"]
    /\ sent = [c \in Conns |-> <<>>]
    /\ nstreams = 0
    /\ upload_store = StoreTwo
    /\ call = NoCall

\* server.py:386-396 and folder_agent.py:69-88: the folder_summary directive
\* up to the first file. A missing path or a folder that fails validation is
\* answered with an error; a folder without supported files makes the
\* generator yield one error result and return.
RecvFolderSummary(ws, folder, recursive) ==
    /\ entry = "batch"
    /\ conn[ws] = "open"
    /\ call = NoCall
    /\ IF folder.name = ""
       THEN /\ sent' = [sent EXCEPT ![ws] =
                   Send(@, conn[ws], <<Out("error", 0, "Missing folder_path")>>)]
            /\ call' = [fn |-> "rejected"]
       ELSE IF folder.kind # "dir"
       THEN /\ sent' = [sent EXCEPT ![ws] =
                   Send(@, conn[ws],
                        <<Out("error", 0, "Folder not found: " \o folder.name)>>)]
            /\ call' = [fn |-> "rejected"]
       ELSE LET paths == collect_supported_files(folder, recursive)
                b == NewBatch("iter_file_summaries", ws, <<folder.name>>,
                              [i \in 1..Len(paths) |-> FileAt(folder, paths[i])])
            IN  /\ call' =
                      IF paths = <<>>
                      THEN [b EXCEPT
                              !.pc = "send",
                              !.outcomes = <<Outcome("none", FALSE, AllOk)>>,
                              !.results = <<Result(<<>>, folder.name, "",
                                  "No supported files (.pdf, .docx, .txt, .csv) in this folder.")>>]
                      ELSE b
                /\ UNCHANGED sent
    /\ UNCHANGED <<entry, client, bridge, task, sessions, registry, conn, nstreams,
                   upload_store>>

\* the (name, text) pairs of the ids, as _get_upload returns them
UploadItems(store, file_ids) ==
    [i \in 1..Len(file_ids) |->
        LET u == _get_upload(store, file_ids[i])
        IN  [name |-> u.name, text |-> u.text]]

\* (variant for C40) the loop over the ids without its break
CollectItemsNoBreak(store, file_ids) ==
    [complete |-> TRUE, items |-> UploadItems(store, file_ids)]

\* server.py:410-417: the loop over the ids; its else branch runs only when
\* no id was missing
CollectItems(store, file_ids) ==
    IF FirstMissing(store, file_ids) # None
    THEN [complete |-> FALSE, items |-> <<>>]
    ELSE [complete |-> TRUE, items |-> UploadItems(store, file_ids)]

\* server.py:405-418: the multi_file_summary directive up to the first item
RecvMultiFileSummary(ws, file_ids) ==
    /\ entry = "batch"
    /\ conn[ws] = "open"
    /\ call = NoCall
    /\ IF file_ids = <<>>
       THEN /\ sent' = [sent EXCEPT ![ws] =
                   Send(@, conn[ws], <<Out("error", 0, "Missing file_ids")>>)]
            /\ call' = [fn |-> "rejected"]
       ELSE IF ~CollectItems(upload_store, file_ids).complete
       THEN /\ sent' = [sent EXCEPT ![ws] =
                   Send(@, conn[ws], <<Out("error", 0, "File not found")>>)]
            /\ call' = [fn |-> "rejected"]
       ELSE /\ call' = NewBatch("iter_uploaded_file_summaries", ws, file_ids,
                          CollectItems(upload_store, file_ids).items)
            /\ UNCHANGED sent
    /\ UNCHANGED <<entry, client, bridge, task, sessions, registry, conn, nstreams,
                   upload_store>>

InBatch == call.fn \in {"iter_file_summaries", "iter_uploaded_file_summaries"}

\* (variant for C25) a consumer that gathers the results before it sends
AfterYieldGather(pc) == "next"

\* `async for info in ...: await send(...)`: when the generator yields, the
\* loop body runs before the generator is resumed (server.py:398-399)
AfterYield(pc) == "send"

\* folder_agent.py:94-105: the text of the next file is extracted; a failure
\* is yielded as that file's result
BatchExtract ==
    /\ call.fn = "iter_file_summaries"
    /\ call.pc = "next"
    /\ Len(call.results) < Len(call.items)
    /\ LET i == Len(call.results) + 1
           f == call.items[i]
           logged == Append(call.log, [ev |-> "extract", idx |-> i])
       IN  call' =
             IF f.readable
             THEN [call EXCEPT !.pc = "summarize", !.text = f.text, !.log = logged]
             ELSE [call EXCEPT
                     !.pc = AfterYield(@), !.log = logged,
                     !.outcomes = Append(@, Outcome("unreadable", FALSE, AllOk)),
                     !.results = Append(@, Result(f.path, NameOf(f.path), "",
                                   "Failed to read file: Could not read file"))]
    /\ UNCHANGED <<entry, client, bridge, task, sessions, registry, conn, sent,
                   nstreams, upload_store>>

\* folder_agent.py:107-119 and 129-137: the item's text is summarized and
\* the result yielded
BatchSummarize(outcome) ==
    /\ \/ call.fn = "iter_file_summaries" /\ call.pc = "summarize"
       \/ /\ call.fn = "iter_uploaded_file_summaries"
          /\ call.pc = "next"
          /\ Len(call.results) < Len(call.items)
    /\ LET i == Len(call.results) + 1
           item == call.items[i]
           name == IF call.fn = "iter_file_summaries" THEN NameOf(item.path)
                   ELSE item.name
           path == IF call.fn = "iter_file_summaries" THEN item.path ELSE <<>>
           summary == IF outcome.raises THEN ""
                      ELSE summarize_long_text(item.text, outcome.replies)
           file_error == IF outcome.raises
                         THEN "Summarization failed: config unreadable" ELSE None
       IN  call' = [call EXCEPT
                      !.pc = AfterYield(@),
                      !.log = Append(@, [ev |-> "summarize", idx |-> i]),
                      !.outcomes = Append(@, Outcome("summarized", outcome.raises,
                                                     outcome.replies)),
                      !.results = Append(@, Result(path, name, Strip(summary),
                                                   file_error))]
    /\ UNCHANGED <<entry, client, bridge, task, sessions, registry, conn, sent,
                   nstreams, upload_store>>

\* server.py:399 and 419: the loop body sends the result just yielded
BatchSend ==
    /\ InBatch
    /\ call.pc = "send"
    /\ LET k == call.nsent + 1
       IN  /\ sent' = [sent EXCEPT ![call.ws] =
                  Send(@, conn[call.ws], <<FolderFile(call.results[k])>>)]
           /\ call' = [call EXCEPT !.pc = "next", !.nsent = k,
                                   !.log = Append(@, [ev |-> "send", idx |-> k])]
    /\ UNCHANGED <<entry, client, bridge, task, sessions, registry, conn, nstreams,
                   upload_store>>

\* server.py:400 and 420: the generator is exhausted, folder_done is sent
BatchFinish ==
    /\ InBatch
    /\ call.pc = "next"
    /\ Len(call.results) >= Len(call.items)
    /\ sent' = [sent EXCEPT ![call.ws] =
           Send(@, conn[call.ws], <<Out("folder_done", 0, "")>>)]
    /\ call' = [call EXCEPT !.pc = "done"]
    /\ UNCHANGED <<entry, client, bridge, task, sessions, registry, conn, nstreams,
                   upload_store>>

\* server.py:289-293 for a run of batch directives
BatchConnect(ws) ==
    /\ entry = "batch"
    /\ conn[ws] = "new"
    /\ conn' = [conn EXCEPT ![ws] = "open"]
    /\ registry' = registry \cup {ws}
    /\ sessions' = [sessions EXCEPT ![ws] = NewSession]
    /\ UNCHANGED <<call, entry, client, bridge, task, sent, nstreams, upload_store>>

BatchNext ==
    \/ \E ws \in SpecConns : BatchConnect(ws)
    \/ \E ws \in SpecConns, folder \in Folders, recursive \in BOOLEAN :
          RecvFolderSummary(ws, folder, recursive)
    \/ \E ws \in SpecConns, file_ids \in IdLists : RecvMultiFileSummary(ws, file_ids)
    \/ BatchExtract
    \/ \E outcome \in SumOutcomes : BatchSummarize(outcome)
    \/ BatchSend
    \/ BatchFinish

BatchSpec == BatchInit /\ [][BatchNext]_vars

\* ================================================================= uploads
\* POST /upload (server.py:229-274), one action per request.
MaxUploads == 4

\* name.lstrip(". ")
RECURSIVE LStripDots(_)
LStripDots(name) ==
    IF name # "" /\ SubSeq(name, 1, 1) \in {".", " "}
    THEN LStripDots(SubSeq(name, 2, Len(name)))
    ELSE name

\* Path(name).suffix
SuffixOf(name) ==
    LET dots == {i \in 2..Len(name) : SubSeq(name, i, i) = "."}
    IN  IF dots = {} THEN ""
        ELSE SubSeq(name, CHOOSE i \in dots : \A j \in dots : j <= i, Len(name))

\* the sanitised file name (server.py:234-238); the inputs carry no directory
SafeName(raw_name) ==
    LET name == LStripDots(IF raw_name = "" THEN "file" ELSE raw_name)
    IN  IF name = "" THEN "file" ELSE name

AllowedSuffixes == {".pdf", ".docx", ".txt", ".csv"}

\* str(uuid.uuid4()): the n-th identifier handed out, never one seen before
UuidOf == <<"u1", "u2", "u3", "u4", "u5", "u6", "u7", "u8">>

UploadFiles ==
    {[filename |-> "a.txt", readable |-> TRUE, text |-> DocShort],
     [filename |-> "..b.csv", readable |-> TRUE, text |-> DocLong],
     [filename |-> "c.v2.pdf", readable |-> TRUE, text |-> ""],
     [filename |-> "notes.md", readable |-> TRUE, text |-> DocShort],
     [filename |-> "", readable |-> TRUE, text |-> DocShort],
     [filename |-> "bad.docx", readable |-> FALSE, text |-> ""]}

UploadInit ==
    /\ entry = "upload"
    /\ client = "plain"
    /\ bridge = [s \in StreamIds |-> NewBridge]
    /\ task = [s \in StreamIds |-> NewTask]
    /\ sessions = [c \in Conns |-> NewSession]
    /\ registry = {}
    /\ conn = [c \in Conns |-> "new"]
    /\ sent = [c \in Conns |-> <<>>]
    /\ nstreams = 0
    /\ upload_store = <<>>
    /\ call = [fn |-> "upload", issued |-> <<>>, responses |-> <<>>]

\* One request: an unsupported suffix or a failed extraction is answered 400
\* and stores nothing; otherwise the text is stored under a new identifier.
Upload(file) ==
    /\ entry = "upload"
    /\ Len(call.responses) < MaxUploads
    /\ LET name == SafeName(file.filename)
           file_id == UuidOf[Len(call.issued) + 1]
       IN  IF SuffixOf(name) \notin AllowedSuffixes \/ ~file.readable
           THEN /\ call' = [call EXCEPT !.responses = Append(@, "400")]
                /\ UNCHANGED upload_store
           ELSE /\ upload_store' = _store_upload(upload_store, file_id, name, file.text)
                /\ call' = [call EXCEPT !.responses = Append(@, file_id),
                                        !.issued = Append(@, file_id)]
    /\ UNCHANGED <<entry, client, bridge, task, sessions, registry, conn, sent,
                   nstreams>>

UploadNext == \E file \in UploadFiles : Upload(file)

UploadSpec == UploadInit /\ [][UploadNext]_vars

\* ---- merging an uploaded document into the user message
\* _build_user_message_with_file (server.py:470-491), with the calls that
\* summarize_long_text makes to the backend as steps of their own.
MergeTexts ==
    {"", DocShort, " alpha\n\nbeta ", DocLong, "one two three four five"}
MergeMessages == {"", "why?"}

MergeInit == LibInit /\ entry = "library"

\* (variant for C35) a threshold that a document of exactly the threshold's
\* length does not pass
FitsVerbatimBelow(file_text) == word_count(file_text) < MAX_FILE_WORDS

\* server.py:477-478
FitsVerbatim(file_text) == word_count(file_text) <= MAX_FILE_WORDS

\* server.py:477-485: a short document is merged at once; for a long one
\* summarize_long_text is entered, which may raise before its first call
MergeStart(user_message, file_name, file_text, raises) ==
    /\ call = NoCall
    /\ LET chunks == chunk_text(file_text, MAX_FILE_WORDS)
           c == [fn |-> "_build_user_message_with_file", text |-> file_text,
                 user_message |-> user_message, file_name |-> file_name,
                 chunks |-> chunks, pc |-> "loop", summaries |-> <<>>,
                 replies |-> <<>>, log |-> <<>>, result |-> "", message |-> None,
                 error |-> ""]
       IN  call' =
             IF FitsVerbatim(file_text)
             THEN [c EXCEPT !.pc = "built", !.chunks = <<>>,
                            !.message = "[File: " \o file_name \o "]\n" \o file_text
                                        \o QuestionMark \o user_message]
             ELSE IF raises
             THEN [c EXCEPT !.pc = "failed",
                            !.error = "Document summarization failed: config unreadable"]
             ELSE c
    /\ UNCHANGED <<entry, client, bridge, task, sessions, registry, conn, sent,
                   nstreams, upload_store>>

\* server.py:490-491: the digest takes the place of the text
MergeFinish ==
    /\ call.fn = "_build_user_message_with_file"
    /\ call.pc = "returned"
    /\ call' = [call EXCEPT
                  !.pc = "built",
                  !.message = "[File: " \o call.file_name \o " - summarized content below]\n"
                              \o call.result \o QuestionMark \o call.user_message]
    /\ UNCHANGED <<entry, client, bridge, task, sessions, registry, conn, sent,
                   nstreams, upload_store>>

MergeNext ==
    \/ \E user_message \in MergeMessages, file_text \in MergeTexts, raises \in BOOLEAN :
          MergeStart(user_message, "a.txt", file_text, raises)
    \/ SumCall
    \/ \E reply \in Replies : SumReturn(reply)
    \/ SumDone
    \/ MergeFinish

MergeSpec == MergeInit /\ [][MergeNext]_vars

\* the chat directive and the unknown type of the smaller specifications
PairInputs == {D("hi", None, <<>>, NoHistory, AllOk)}
PairTypes == {"ping"}

\* ---- inbound frames
\* server.py:296-325: what the receive loop does with a frame before it
\* dispatches on the directive's type. A frame is binary or text, has a size
\* in bytes, decodes as UTF-8 or not (text frames always do), and its text is
\* blank, not JSON, or a JSON value of some kind.
WS_MAX_MESSAGE_BYTES == 4

Frame(binary, size, utf8, json) ==
    [binary |-> binary, size |-> size, utf8 |-> utf8, json |-> json]

JsonKinds == {"blank", "invalid", "array", "string", "number", "null", "object"}

Frames ==
    {Frame(b, WS_MAX_MESSAGE_BYTES + 1, TRUE, "object") : b \in BOOLEAN}
    \cup {Frame(TRUE, WS_MAX_MESSAGE_BYTES + 1, FALSE, "invalid"),
          Frame(TRUE, WS_MAX_MESSAGE_BYTES, FALSE, "invalid")}
    \cup {Frame(b, WS_MAX_MESSAGE_BYTES, TRUE, j) :
             b \in BOOLEAN, j \in JsonKinds \ {"object"}}

\* where the loop leaves the frame: the check that stops it, or "object"
\* when the frame reaches the dispatch
FrameClass(f) ==
    IF f.size > WS_MAX_MESSAGE_BYTES THEN "too_large"
    ELSE IF f.binary /\ ~f.utf8 THEN "bad_encoding"
    ELSE IF f.json = "blank" THEN "blank"
    ELSE IF f.json = "invalid" THEN "bad_json"
    ELSE IF f.json # "object" THEN "not_object"
    ELSE "object"

\* the error message sent for a frame (server.py:304-323)
FrameReply(class) ==
    IF class = "too_large" THEN <<Out("error", 0, "Message too large")>>
    ELSE IF class = "bad_encoding" THEN <<Out("error", 0, "Invalid encoding")>>
    ELSE IF class = "bad_json" THEN <<Out("error", 0, "Invalid JSON")>>
    ELSE <<>>

\* (variant for C38) a loop that gives up on a frame that is not JSON
AfterFrameStrict(state, class) ==
    IF class \in {"not_object", "bad_json"} THEN "closed" ELSE state

\* After a frame the loop continues, except that data.get("type") on a JSON
\* value that is no object raises AttributeError (server.py:325), which the
\* handler catches outside the loop (server.py:430-431): the handler returns
\* and the connection is over.
AfterFrame(state, class) ==
    IF class = "not_object" THEN "closed" ELSE state

\* one frame that does not reach the dispatch
RecvFrame(ws, f) ==
    /\ conn[ws] = "open"
    /\ FrameClass(f) # "object"
    /\ Answered(ws) < MaxDirectives
    /\ sent' = [sent EXCEPT ![ws] = Send(@, conn[ws], FrameReply(FrameClass(f)))]
    /\ conn' = [conn EXCEPT ![ws] = AfterFrame(@, FrameClass(f))]
    /\ registry' = IF conn'[ws] = "open" THEN registry
                   ELSE AfterLoop(registry, ws, "Exception")
    /\ UNCHANGED <<call, entry, client, bridge, task, sessions, nstreams,
                   upload_store>>

FrameInit == Init /\ entry = "websocket" /\ client = "plain"

FrameNext ==
    \/ \E ws \in SpecConns : Connect(ws)
    \/ \E ws \in SpecConns, f \in Frames : RecvFrame(ws, f)
    \/ \E ws \in SpecConns, d \in PairInputs : RecvChat(ws, d)
    \/ \E ws \in SpecConns : RecvStop(ws)
    \/ \E ws \in SpecConns : RecvDisconnect(ws)
    \/ \E t \in StreamIds, up \in BOOLEAN : TaskStart(t, up)
    \/ \E t \in StreamIds : TaskResume(t)

FrameSpec == FrameInit /\ [][FrameNext]_vars

\* ---- two connections side by side

PairInit == Init /\ entry = "websocket" /\ client = "plain"

PairNext ==
    \/ \E ws \in Conns : Connect(ws)
    \/ \E ws \in Conns, d \in PairInputs : RecvChat(ws, d)
    \/ \E ws \in Conns : RecvStop(ws)
    \/ \E ws \in Conns, ty \in PairTypes : RecvUnknown(ws, ty)
    \/ \E ws \in Conns : RecvDisconnect(ws)
    \/ \E t \in StreamIds, up \in BOOLEAN : TaskStart(t, up)
    \/ \E t \in StreamIds : TaskResume(t)

PairSpec == PairInit /\ [][PairNext]_vars

\* ---- the bridge alone, with its scheduling
\* A run in which a caller drives stream_response directly.
StreamInit == Init /\ entry = "direct"

StreamNext ==
    \/ \E st \in StreamIds : DirectCall(st)
    \/ \E st \in StreamIds, up \in BOOLEAN : DirectNext(st, up)
    \/ \E st \in StreamIds : DirectClose(st)
    \/ \E st \in StreamIds, r \in {"ok"} \cup PostFailures : WorkerPost(st, r)
    \/ \E st \in StreamIds, line \in Lines : WorkerRead(st, line)
    \/ \E st \in StreamIds : ConsumerGet(st)

\* The worker is an OS thread and every blocking call it makes returns or
\* times out (requests timeout, ai_service.py:47); the consumer polls the
\* queue every 0.2 s (ai_service.py:121-130); the caller's `async for` asks
\* for the next item, or closes the generator, once it has one.
StreamFairness ==
    \A st \in StreamIds :
        /\ WF_vars(\E r \in {"ok"} \cup PostFailures : WorkerPost(st, r))
        /\ WF_vars(\E line \in Lines : WorkerRead(st, line))
        /\ WF_vars(ConsumerGet(st))
        /\ WF_vars((\E up \in BOOLEAN : DirectNext(st, up)) \/ DirectClose(st))

StreamSpec == StreamInit /\ [][StreamNext]_vars /\ StreamFairness

\* =================================================================== claims
InProgress == {"created", "streaming", "doneSent", "errSent"}
Started == {"streaming", "doneSent", "errSent"}

\* the messages of one type sent for stream t, in order
OfStream(log, type, t) ==
    SelectSeq(log, LAMBDA o : o.type = type /\ o.stream = t)

\* the fragments the backend has emitted on a stream, in order
Emitted(b) == [k \in 1..b.nfrag |-> FragText[k]]

Contents(log) == [i \in 1..Len(log) |-> log[i].content]

C2_HealthyStreamDelivers ==
    \A t \in StreamIds :
        LET ws == task[t].ws
        IN  (/\ task[t].pc = "done"
             /\ task[t].ev # "set"
             /\ bridge[t].fault = "none"
             /\ conn[ws] = "open")
            => /\ Contents(OfStream(sent[ws], "token", t)) = Emitted(bridge[t])
               /\ Len(OfStream(sent[ws], "done", t)) = 1
               /\ Len(OfStream(sent[ws], "error", t)) = 0

\* ---- C3
\* C3: whenever a later chat stream of a session exists while an earlier one
\* that has started is still in progress, the earlier stream's cancellation
\* flag is set.
C3_PriorCancelled ==
    \A t1, t2 \in StreamIds :
        (/\ t1 < t2
         /\ task[t1].ws = task[t2].ws
         /\ task[t1].pc \in Started
         /\ task[t2].pc \in InProgress)
        => task[t1].ev = "set"

C5_HistoryBounded ==
    \A c \in Conns : Len(sessions[c].messages) <= MAX_SESSION_MESSAGES

\* ---- C6
\* an entry of the old history is gone from the new one
Dropped(old, new) ==
    \E i \in 1..Len(old) : \A j \in 1..Len(new) : new[j] # old[i]

\* the new history is a suffix of the old one, or of the old one with the
\* step's new entry appended
KeepsNewest(old, new) ==
    \/ IsSuffix(new, old)
    \/ new # <<>> /\ IsSuffix(new, Append(old, Last(new)))

C7_CompletionRetrims ==
    [][\A t \in StreamIds :
          (task[t].pc # "done" /\ task'[t].pc = "done")
          => /\ Len(sessions'[task[t].ws].messages) <= MAX_SESSION_MESSAGES
             /\ sessions'[task[t].ws].stop_event = NoEvent]_vars

\* ---- C8
ProducerFaults == PostFailures \cup {"drop", "nonobject"}

Invalid(d) ==
    \/ Strip(d.message) = "" /\ FileIdsOf(d) = <<>>
    \/ Len(UserText(d, upload_store)) > MAX_MESSAGE_LENGTH

\* C10: a step of the receive loop on such a chat directive sends an error
\* message and changes neither any session (history, title, stop_event)
\* nor any task: no stream is started.
C10_InvalidChatRejected ==
    [][\A ws \in Conns, d \in ChatInputs(client) :
          (Invalid(d) /\ RecvChat(ws, d))
          => /\ sessions' = sessions
             /\ task' = task
             /\ nstreams' = nstreams
             /\ Len(sent'[ws]) > Len(sent[ws])
             /\ Last(sent'[ws]).type = "error"]_vars

\* an over-long chat directive was rejected on a session that already had a
\* history and a title
C10_Witness ==
    \E c \in Conns :
        /\ sent[c] # <<>>
        /\ Last(sent[c]) = Out("error", 0, "Message too long")
        /\ sessions[c].messages # <<>>
        /\ sessions[c].conversation_title # "New Chat"

\* ---- C11
\* C11: a step of the receive loop on a directive of an unknown type sends
\* one error message naming the type, leaves the connection open and
\* registered, and changes no session and no task.
C11_UnknownTypeAnswered ==
    [][\A ws \in Conns, ty \in UnknownTypes :
          RecvUnknown(ws, ty)
          => /\ sent'[ws] = Append(sent[ws], Out("error", 0, "Unknown type: " \o ty))
             /\ conn'[ws] = "open"
             /\ registry' = registry
             /\ sessions' = sessions
             /\ task' = task]_vars

\* a chat directive that arrived after the unknown one was processed: the
\* message of its stream follows the unknown-type error
C11_Witness ==
    \E c \in Conns : \E i, j \in 1..Len(sent[c]) :
        /\ i < j
        /\ sent[c][i] = Out("error", 0, "Unknown type: ping")
        /\ sent[c][j].stream > 0
        /\ conn[c] = "open"

\* ---- C12
\* C12: once a session's history holds a non-empty user message, from which
\* the title was set, no step changes the session's title.
C12_TitleSetOnce ==
    [][\A c \in Conns :
          (\E i \in 1..Len(sessions[c].messages) :
              /\ sessions[c].messages[i].role = "user"
              /\ sessions[c].messages[i].content # "")
          => sessions'[c].conversation_title = sessions[c].conversation_title]_vars

\* ---- C13
\* no stream of the session has started and not yet completed
Idle(ws) ==
    \A t \in StreamIds : task[t].ws = ws => task[t].pc \notin Started

\* C13: a stop directive processed while the session has no active stream
\* changes nothing: no session, no task, no stream, nothing sent.
C13_IdleStopNoOp ==
    [][\A ws \in Conns :
          (Idle(ws) /\ RecvStop(ws))
          => UNCHANGED <<sessions, task, bridge, sent, conn, registry>>]_vars

\* a session that is idle again after a stream has completed, on an open
\* connection: a stop directive arriving now finds no active stream
C13_Witness ==
    \E c \in Conns :
        /\ conn[c] = "open"
        /\ Idle(c)
        /\ \E t \in StreamIds : task[t].ws = c /\ task[t].pc = "done"
        /\ sessions[c].stop_event = NoEvent

\* ---- C14
\* C14: a stream that was stopped while in progress and has completed on an
\* open connection has sent a done message and no error message, and the
\* text of the tokens it delivered is in the history as an assistant entry.
C14_StoppedStreamEndsDone ==
    \A t \in StreamIds :
        LET ws == task[t].ws
        IN  (task[t].pc = "done" /\ task[t].ev = "set" /\ conn[ws] = "open")
            => /\ Len(OfStream(sent[ws], "done", t)) = 1
               /\ Len(OfStream(sent[ws], "error", t)) = 0
               /\ \E i \in 1..Len(sessions[ws].messages) :
                     sessions[ws].messages[i]
                     = Msg("assistant",
                           Concat(Contents(OfStream(sent[ws], "token", t))))

\* ---- C15
\* C15: at every moment the items a stream has yielded to its caller, and
\* the token messages sent for it, are a prefix of the non-empty fragments
\* the backend has emitted on it, one item per fragment.
C15_DeliveredIsPrefix ==
    \A st \in StreamIds :
        /\ IsPrefix(bridge[st].out, Emitted(bridge[st]))
        /\ \A c \in Conns :
              IsPrefix(Contents(OfStream(sent[c], "token", st)), Emitted(bridge[st]))

\* two fragments delivered in order although the backend also sent a line
\* that carried no fragment
C15_Witness ==
    \E st \in StreamIds :
        /\ Len(bridge[st].out) >= 2
        /\ bridge[st].out = Emitted(bridge[st])
        /\ bridge[st].nlines > bridge[st].nfrag

\* ---- C16
\* C16: under fair scheduling every started stream ends: its producer
\* thread exits, and its generator ends, raises or is closed.
C16_StreamTerminates ==
    \A st \in StreamIds :
        /\ (bridge[st].worker \in {"post", "lines"}) ~> (bridge[st].worker = "exit")
        /\ (bridge[st].gen \in {"waiting", "suspended"})
              ~> (bridge[st].gen \in {"ended", "raised", "closed"})

\* a stream cancelled by its caller after a fragment: the generator was
\* closed, and the producer saw the flag at its next line and exited
C16_Witness ==
    \E st \in StreamIds :
        /\ bridge[st].gen = "closed"
        /\ bridge[st].out # <<>>
        /\ bridge[st].worker = "exit"
        /\ bridge[st].fault = "none"
        /\ bridge[st].nlines > bridge[st].nfrag

\* ---- C17
\* C17: when a chat directive is accepted, the request built from the
\* session's history as the handler leaves it is the system prompt followed
\* by a history of at most MAX_SESSION_MESSAGES entries whose last message
\* is the directive's user text as a user message.
C17_RequestEndsWithUserMessage ==
    [][\A ws \in Conns, d \in ChatInputs(client) :
          (ChatAccepted(d, upload_store) /\ RecvChat(ws, d))
          => LET request == messages_for_api(sessions'[ws].messages)
             IN  /\ Head(request).role = "system"
                 /\ Len(request) <= 1 + MAX_SESSION_MESSAGES
                 /\ Last(request) = Msg("user", UserText(d, upload_store))]_vars

\* ---- C18
\* the words of the chunks, in order
RECURSIVE WordsOf(_)
WordsOf(chunks) ==
    IF chunks = <<>> THEN <<>> ELSE Split(Head(chunks)) \o WordsOf(Tail(chunks))

\* C18: the words of the chunks of chunk_text(T, M), taken in order, are
\* exactly the words of T in order.
C18_ChunksKeepWords ==
    call.fn = "chunk_text" => WordsOf(call.chunks) = Split(call.text)

\* a text that was split, whose chunks joined are not the text itself
\* (its spacing is gone) and whose last chunk is shorter than the others
C18_Witness ==
    /\ call.fn = "chunk_text"
    /\ Len(call.chunks) >= 2
    /\ Join(" ", call.chunks) # call.text
    /\ word_count(Last(call.chunks)) < call.max_words

\* ---- C19
\* n / m rounded up
CeilDiv(n, m) == (n + m - 1) \div m

C20_OneCallPerChunk ==
    call.fn = "summarize_long_text" =>
        /\ \A k \in 1..Len(call.log) :
              call.log[k] = [ev |-> IF k % 2 = 1 THEN "call" ELSE "ret",
                             idx |-> (k + 1) \div 2,
                             chunk |-> call.chunks[(k + 1) \div 2]]
        /\ Len(call.log) <= 2 * Len(call.chunks)
        /\ call.pc = "returned" => Len(call.log) = 2 * Len(call.chunks)
        /\ (call.text # "" /\ word_count(call.text) <= MAX_FILE_WORDS)
           => call.chunks = <<call.text>>

\* a text over the threshold summarized in two calls, the second of which
\* failed
C20_Witness ==
    /\ call.fn = "summarize_long_text"
    /\ call.pc = "returned"
    /\ Len(call.chunks) = 2
    /\ Len(call.log) = 4
    /\ call.result = "sum" \o ChunkSeparator \o "[Chunk 2 summary failed: timeout]"

\* ---- C21
\* C21: when summarize_long_text has returned for a text of n chunks, every
\* chunk was submitted, and the digest is n parts in chunk order joined by
\* the separator: the trimmed output of a call that returned, and for a
\* call that failed the placeholder naming the chunk's index and the error.
C21_FailedChunkIsPlaceholder ==
    (call.fn = "summarize_long_text" /\ call.pc = "returned") =>
        LET n == Len(call.chunks)
        IN  /\ Begun(call.log) = n
            /\ Len(call.replies) = n
            /\ call.result =
                  Join(ChunkSeparator,
                       [i \in 1..n |->
                           IF call.replies[i].ok THEN "sum"
                           ELSE "[Chunk " \o IdxStr[i]
                                \o " summary failed: timeout]"])

\* the call for the first of two chunks failed and the second was still
\* made: a placeholder, the separator, the second chunk's summary
C21_Witness ==
    /\ call.fn = "summarize_long_text"
    /\ call.pc = "returned"
    /\ Len(call.chunks) = 2
    /\ call.result = "[Chunk 1 summary failed: timeout]" \o "\n\n---\n\n" \o "sum"

\* ---- batch summaries (BatchSpec)
ScanDone == call.fn = "iter_file_summaries" /\ call.pc = "done"
NoFilesText == "No supported files (.pdf, .docx, .txt, .csv) in this folder."
UnreadableText == "Failed to read file: Could not read file"

\* what the scan owes for file i of a folder with supported files
ScanResultFits(i) ==
    LET f == call.items[i]
        r == call.results[i]
        o == call.outcomes[i]
    IN  /\ r.name = NameOf(f.path)
        /\ ~f.readable => r.error = UnreadableText /\ r.summary = ""
        /\ (f.readable /\ ~o.raises) =>
              /\ r.error = None
              /\ r.summary = Strip(summarize_long_text(f.text, o.replies))

CallsFor(i) == 1..Len(chunk_text(call.items[i].text, MAX_FILE_WORDS))

\* C23: when the summarization of a batch item fails (a backend call made for
\* it fails, or the summarization itself raises), the item's result carries a
\* non-null error.
C23_FailedSummaryHasError ==
    InBatch =>
        \A i \in 1..Len(call.results) :
            LET o == call.outcomes[i]
            IN  (/\ o.kind = "summarized"
                 /\ o.raises \/ \E j \in CallsFor(i) : ~o.replies[j].ok)
                => call.results[i].error # None

\* C24: batch results come in a stable order: a folder scan yields them in
\* ascending path order, an id list in the order of the ids in the request.
C24_ResultsInOrder ==
    /\ (call.fn = "iter_file_summaries" /\ call.items # <<>>) =>
          /\ \A i \in 1..Len(call.results) : call.results[i].path = call.items[i].path
          /\ \A i, j \in 1..Len(call.results) :
                i < j => PathLess(call.results[i].path, call.results[j].path)
    /\ call.fn = "iter_uploaded_file_summaries" =>
          /\ Len(call.items) = Len(call.request)
          /\ \A i \in 1..Len(call.results) :
                call.results[i].name = _get_upload(upload_store, call.request[i]).name

C24_Witness ==
    /\ ScanDone
    /\ Len(call.results) = 4
    /\ call.results[3].path = <<3>>
    /\ call.results[4].path = <<5, 1>>

\* C25: the result of item i has been sent to the client before extraction or
\* summarization of item i+1 begins.
C25_SentBeforeNextBegins ==
    InBatch =>
        \A k \in 1..Len(call.log) :
            (call.log[k].ev \in {"extract", "summarize"} /\ call.log[k].idx > 1) =>
                /\ \E h \in 1..(k - 1) :
                      call.log[h] = [ev |-> "send", idx |-> call.log[k].idx - 1]
                /\ Len(SelectSeq(sent[call.ws], LAMBDA o : o.type = "folder_file"))
                      >= call.log[k].idx - 1

C25_Witness ==
    /\ InBatch
    /\ call.pc # "done"
    /\ Len(call.items) >= 2
    /\ \E k \in 1..(Len(call.log) - 1) :
          /\ call.log[k] = [ev |-> "send", idx |-> 1]
          /\ call.log[k + 1].ev \in {"extract", "summarize"}
          /\ call.log[k + 1].idx = 2
    /\ sent[call.ws][1] = FolderFile(call.results[1])

\* ---- the upload cache (UploadSpec)
Min(a, b) == IF a < b THEN a ELSE b
CachedIds == [i \in 1..Len(upload_store) |-> upload_store[i].id]

\* C26: the cache holds the most recently stored entries in the order they
\* were stored: what has left it is exactly the earliest-inserted entries, so
\* one upload beyond the capacity evicts the earliest entry and no other.
C26_EvictsEarliestOnly ==
    call.fn = "upload" =>
        LET n == Len(call.issued)
            kept == Min(n, UPLOAD_MAX_ENTRIES)
        IN  CachedIds = SubSeq(call.issued, n - kept + 1, n)

C26_Witness ==
    /\ call.fn = "upload"
    /\ Len(call.issued) = UPLOAD_MAX_ENTRIES + 1
    /\ CachedIds = Tail(call.issued)
    /\ upload_store[Len(upload_store)].name = "b.csv"

\* C27: in every reachable state the upload cache holds at most
\* UPLOAD_MAX_ENTRIES entries.
C27_CacheBounded == Len(upload_store) <= UPLOAD_MAX_ENTRIES

C27_Witness ==
    /\ call.fn = "upload"
    /\ Len(call.issued) = UPLOAD_MAX_ENTRIES + 2
    /\ Len(upload_store) = UPLOAD_MAX_ENTRIES

\* ---- sessions of two connections (PairSpec)
\* C28: the registry holds the record of a connection for as long as the
\* connection is open, and no longer holds it once the connection has ended,
\* by a disconnect or by a failure of its handler.
C28_RegistryFollowsConnection ==
    \A ws \in Conns :
        /\ conn[ws] = "open" => ws \in registry
        /\ conn[ws] \in {"new", "closed"} => ws \notin registry

C28_Witness ==
    /\ conn["w1"] = "closed" /\ "w1" \notin registry
    /\ conn["w2"] = "open" /\ "w2" \in registry
    /\ sessions["w1"].messages # <<>>

\* the state of the cancellation events of the streams of connection ws
HandlesOf(ws) ==
    [t \in StreamIds |->
        IF task[t].ws = ws /\ task[t].pc # "none" THEN task[t].ev ELSE "none"]

\* a step taken for connection ws: a directive of its receive loop, its
\* connecting or ending, or a step of one of its stream tasks
StepOf(ws) ==
    \/ Connect(ws)
    \/ \E d \in PairInputs : RecvChat(ws, d)
    \/ RecvStop(ws)
    \/ \E ty \in PairTypes : RecvUnknown(ws, ty)
    \/ RecvDisconnect(ws)
    \/ \E t \in StreamIds :
          /\ task[t].ws = ws
          /\ (\E up \in BOOLEAN : TaskStart(t, up)) \/ TaskResume(t)

\* C29: a step taken for one connection leaves the session of every other
\* connection (history, title, stop_event and the state of its events)
\* unchanged.
C29_SessionsIsolated ==
    [][\A ws \in Conns : StepOf(ws) =>
          \A other \in Conns \ {ws} :
              /\ sessions'[other] = sessions[other]
              /\ HandlesOf(other)' = HandlesOf(other)]_vars

C29_Witness ==
    /\ sessions["w1"].messages = <<Msg("user", "hi")>>
    /\ sessions["w1"].stop_event # NoEvent
    /\ sessions["w2"].messages # <<>>
    /\ Len(sessions["w2"].messages) = 2
    /\ \E t \in StreamIds : task[t].ws = "w2" /\ task[t].pc = "done"

\* ---- the producer's side of the handoff channel
\* everything the worker of stream b has put on token_queue, in order: the
\* fragments the generator has yielded, the terminal item it has taken, and
\* what is still queued
TakenTerminal(b) ==
    IF b.gen = "ended" THEN <<EndItem>>
    ELSE IF b.gen = "raised" THEN <<ErrItem(b.fault)>>
    ELSE <<>>
Puts(b) == [i \in 1..Len(b.out) |-> TokItem(b.out[i])] \o TakenTerminal(b) \o b.queue
Terminals(b) == {i \in 1..Len(Puts(b)) : Puts(b)[i].kind # "token"}
QueuedFragments(b) == Len(SelectSeq(b.queue, LAMBDA it : it.kind = "token"))

C30_TerminalOnceAndLast ==
    \A st \in StreamIds :
        LET b == bridge[st]
        IN  b.worker # "none" =>
              /\ b.worker # "exit" => Terminals(b) = {}
              /\ b.worker = "exit" =>
                    /\ Terminals(b) = {Len(Puts(b))}
                    /\ Puts(b)[Len(Puts(b))] =
                          IF b.fault = "none" THEN EndItem ELSE ErrItem(b.fault)
              /\ b.sawStop => b.fault = "none" /\ b.flag

C30_NoFragmentOnceStopped ==
    \A st \in StreamIds :
        bridge[st].flag =>
            /\ bridge'[st].nfrag = bridge[st].nfrag
            /\ QueuedFragments(bridge'[st]) <= QueuedFragments(bridge[st])

\* C30: in every run the worker puts exactly one terminal item on the queue,
\* as the last item it puts: the sentinel after the end of the response or
\* after it found stop_event set, the error item after a failure; with
\* stop_event set it puts no further fragment.
C30_OneTerminalItem ==
    /\ []C30_TerminalOnceAndLast
    /\ [][C30_NoFragmentOnceStopped]_vars

C30_Witness ==
    \E st \in StreamIds :
        /\ bridge[st].sawStop
        /\ bridge[st].worker = "exit"
        /\ bridge[st].gen = "closed"
        /\ bridge[st].out = <<"t1">>
        /\ bridge[st].queue = <<TokItem("t2"), EndItem>>

\* ---- the cancellation handle of a session
\* stream t is the chat directive accepted last on its connection
NewestOf(t) ==
    \A u \in StreamIds :
        (task[u].ws = task[t].ws /\ task[u].pc # "none") => u <= t

\* C31: from the moment a chat directive is accepted until its stream
\* completes, the session's stop_event is the event of that stream, so that
\* a stop directive sets that stream's flag, and the completion of an earlier
\* stream does not clear it.
C31_HandleFollowsStream ==
    \A t \in StreamIds :
        (task[t].pc \in InProgress /\ NewestOf(t))
        => sessions[task[t].ws].stop_event = t

\* ---- the messages of one stream
\* the positions in the log of a connection of the done and error messages
\* of stream t
TerminalsOf(log, t) ==
    {i \in 1..Len(log) : log[i].stream = t /\ log[i].type \in {"done", "error"}}

\* C32: a stream that has got as far as its terminal message on an open
\* connection has sent exactly one of them, done or error; no stream ever
\* sends two, and no token of a stream follows its terminal message.
C32_OneTerminalMessage ==
    \A t \in StreamIds :
        LET log == sent[task[t].ws]
        IN  /\ Cardinality(TerminalsOf(log, t)) <= 1
            /\ (task[t].pc \in {"doneSent", "errSent", "done"}
                 /\ conn[task[t].ws] = "open") =>
                    Cardinality(TerminalsOf(log, t)) = 1
            /\ \A i \in TerminalsOf(log, t) : \A j \in (i + 1)..Len(log) :
                  ~(log[j].type = "token" /\ log[j].stream = t)
            /\ \A c \in Conns \ {task[t].ws} :
                  \A i \in 1..Len(sent[c]) : sent[c][i].stream # t

C32_Witness ==
    /\ conn["w1"] = "open"
    /\ \A t \in 1..2 :
          /\ task[t].pc = "done"
          /\ Len(OfStream(sent["w1"], "error", t)) = 1
          /\ Len(OfStream(sent["w1"], "done", t)) = 0

\* ---- chat directives that name a missing upload
NamesMissingUpload(d) == FirstMissing(upload_store, FileIdsOf(d)) # None

\* C34: a chat directive that names an upload id absent from the cache is
\* answered with a "File not found" error, leaves the history and the title
\* of the session as they were, and starts no stream.
C34_MissingUploadRejected ==
    [][\A ws \in Conns : \A d \in ChatInputs(client) :
          (NamesMissingUpload(d) /\ RecvChat(ws, d)) =>
              /\ \E i \in 1..Len(sent'[ws]) :
                    /\ i > Len(sent[ws])
                    /\ sent'[ws][i] = Out("error", 0, "File not found: "
                                          \o FirstMissing(upload_store, FileIdsOf(d)))
              /\ sessions'[ws].messages = sessions[ws].messages
              /\ sessions'[ws].conversation_title = sessions[ws].conversation_title
              /\ nstreams' = nstreams
              /\ task' = task]_vars

\* ---- merging a document (MergeSpec)
Merging == call.fn = "_build_user_message_with_file"

\* C35: a document of at most MAX_FILE_WORDS words is merged into the user
\* message verbatim and no backend call is made for it; a longer one is
\* replaced by the digest summarize_long_text makes of it, one call per chunk.
C35_ShortVerbatimLongDigest ==
    Merging =>
        IF word_count(call.text) <= MAX_FILE_WORDS
        THEN /\ call.log = <<>>
             /\ call.pc = "built"
             /\ call.message = "[File: " \o call.file_name \o "]\n" \o call.text
                               \o QuestionMark \o call.user_message
        ELSE call.pc = "built" =>
               /\ Begun(call.log) = Len(chunk_text(call.text, MAX_FILE_WORDS))
               /\ Begun(call.log) >= 2
               /\ call.message =
                     "[File: " \o call.file_name \o " - summarized content below]\n"
                     \o Join(ChunkSeparator,
                             [i \in 1..Len(call.replies) |-> SummaryOf(i, call.replies[i])])
                     \o QuestionMark \o call.user_message

C35_Witness ==
    /\ Merging
    /\ call.pc = "built"
    /\ call.text = DocLong
    /\ call.message = "[File: a.txt - summarized content below]\nsum\n\n---\n\nsum"
                      \o "\n\nUser question: why?"

\* ---- entries of the history
\* position i holds the most recent user message of the history
IsLastUser(messages, i) ==
    /\ messages[i].role = "user"
    /\ \A j \in (i + 1)..Len(messages) : messages[j].role # "user"

\* every entry of old that is still there in new, k entries having been
\* trimmed from the front by the cap, is what it was; with rewrite, the most
\* recent user message may have changed
KeptIntact(old, new, rewrite) ==
    \E k \in 0..Len(old) :
        /\ k > 0 => Len(old) + 1 >= MAX_SESSION_MESSAGES
        /\ \A i \in 1..Min(Len(old) - k, Len(new)) :
              \/ new[i] = old[k + i]
              \/ rewrite /\ IsLastUser(old, k + i) /\ new[i].role = "user"

\* new is old with k entries trimmed from the front by the cap and at most
\* one entry appended, every entry that stays being what it was
KeptUnchanged(old, new) ==
    \E k \in 0..Len(old), n \in 0..1 :
        /\ Len(new) = Len(old) - k + n
        /\ k > 0 => Len(old) + n >= MAX_SESSION_MESSAGES
        /\ \A i \in 1..(Len(old) - k) : new[i] = old[k + i]

C37_DisconnectCancels ==
    \A t \in StreamIds :
        (task[t].pc \in Started /\ conn[task[t].ws] = "closed")
        => task[t].ev = "set"

\* ---- inbound frames (FrameSpec)
\* the error the loop owes for a frame it cannot read, "" for none
FrameError(f) ==
    IF f.size > WS_MAX_MESSAGE_BYTES THEN "Message too large"
    ELSE IF f.binary /\ ~f.utf8 THEN "Invalid encoding"
    ELSE IF f.json = "invalid" THEN "Invalid JSON"
    ELSE ""

\* C38: a frame that is too large, is not valid UTF-8 or is not valid JSON
\* is answered with its error message, changes no session state and leaves
\* the connection open and registered.
C38_BadFrameAnswered ==
    [][\A ws \in Conns : \A f \in Frames :
          (FrameError(f) # "" /\ RecvFrame(ws, f)) =>
              /\ sent'[ws] = Append(sent[ws], Out("error", 0, FrameError(f)))
              /\ sessions' = sessions
              /\ task' = task
              /\ conn'[ws] = "open"
              /\ ws \in registry']_vars

\* a chat directive was processed after a frame that was not JSON
C38_Witness ==
    /\ Len(sent["w1"]) = 2
    /\ sent["w1"][1] = Out("error", 0, "Invalid JSON")
    /\ sent["w1"][2].stream = 1
    /\ sessions["w1"].messages # <<>>
    /\ conn["w1"] = "open"

\* C39: a frame that is valid JSON but no object is answered with an error
\* and leaves the connection open and its session registered.
C39_NonObjectFrameAnswered ==
    [][\A ws \in Conns : \A f \in Frames :
          (FrameClass(f) = "not_object" /\ RecvFrame(ws, f)) =>
              /\ Len(sent'[ws]) = Len(sent[ws]) + 1
              /\ sent'[ws][Len(sent'[ws])].type = "error"
              /\ conn'[ws] = "open"
              /\ ws \in registry']_vars

\* the terminal messages of a batch directive among the messages sent
BatchTerminals(log) == SelectSeq(log, LAMBDA o : o.type \in {"folder_done", "error"})

\* the batch directive has been answered in full
BatchEnded == call.fn = "rejected" \/ (InBatch /\ call.pc = "done")

\* C40: a folder_summary or multi_file_summary directive sends at most one
\* terminal message, folder_done or error, and nothing after it; once the
\* directive has ended it has sent exactly one. A multi_file_summary naming
\* an id that is not in the upload cache is answered with one error and with
\* no folder_file and no folder_done message.
C40_OneTerminalAfterFiles ==
    /\ [](\A ws \in Conns :
            LET log == sent[ws]
            IN  /\ Len(BatchTerminals(log)) <= 1
                /\ \A i \in 1..Len(log) :
                      log[i].type \in {"folder_done", "error"} => i = Len(log)
                /\ \A i \in 1..Len(log) :
                      log[i].type \in {"folder_done", "error", "folder_file"}
                /\ (BatchEnded /\ conn[ws] = "open") => Len(BatchTerminals(log)) = 1)
    /\ [][\A ws \in Conns : \A file_ids \in IdLists :
            ((\E i \in 1..Len(file_ids) : file_ids[i] \notin StoreIds(upload_store))
              /\ RecvMultiFileSummary(ws, file_ids)) =>
                /\ sent'[ws] = Append(sent[ws], Out("error", 0, "File not found"))
                /\ call'.fn = "rejected"]_vars

\* both uploaded files were summarized and sent, then folder_done
C40_Witness ==
    /\ call.fn = "iter_uploaded_file_summaries"
    /\ call.pc = "done"
    /\ Len(sent["w1"]) = 3
    /\ sent["w1"][1].type = "folder_file"
    /\ sent["w1"][2].type = "folder_file"
    /\ sent["w1"][3] = Out("folder_done", 0, "")

====
